---- MODULE Spec2Model ----
(***************************************************************************)
(* K-Means iteration drivers of the KMeans-Parallelizer repository.        *)
(*                                                                         *)
(* Four variants of KMeans::run are modelled, selected by `variant`:       *)
(*   "lightning" : src/src/lightning-serial.cpp (aggregate sums)           *)
(*   "fast"      : src/src/fast-serial.cpp      (per-cluster member lists) *)
(*   "ksf"       : src/kmeans-serial-fast.cpp   (member lists, sqrt)       *)
(*   "usion"     : src/src/usion-parallel.cpp   (TBB, fused reassign+sum)  *)
(*                                                                         *)
(* Arithmetic on double is modelled as exact rational arithmetic: a value  *)
(* is a pair <<n, d>> in lowest terms with d > 0.  The result of sqrt() is  *)
(* rounded as a double is, with the mantissa scaled down: to a multiple of *)
(* 1 / SqrtScale.  Point ids and cluster ids are 0-based as in the code;   *)
(* vectors are functions on 0..(n-1).                                      *)
(***************************************************************************)
EXTENDS Integers, Sequences, FiniteSets, TLC

\* ------------------------------------------------------------------ bounds
MaxPoints == 3
MaxValues == 4
MaxCoord == 1
MaxIter == 2
NumThreads == 2
MaxParPoints == 2
SqrtScale == 3
MaxQuery == 2
MaxQueryCells == 4

\* width in bits of the state of rand()
RandBits == 3

\* largest value of time(NULL)
MaxClock == 3

Variants == {"lightning", "fast", "ksf", "usion"}

Threads == 1 .. NumThreads

VARIABLES
    variant,         \* which source file's run() is executing
    total_points,    \* KMeans::total_points
    total_values,    \* KMeans::total_values
    K,               \* KMeans::K
    max_iterations,  \* KMeans::max_iterations
    values,          \* Point::values of every point
    id_cluster,      \* Point::id_cluster of every point
    chosen_indexes,  \* chosen_indexes / prohibited_indexes, in insertion order
    central_values,  \* Cluster::central_values of every cluster in `clusters`
    members,         \* Cluster::points (ids) of every cluster (fast, ksf)
    iter,            \* local `iter` of run()
    done,            \* local `done` of run()
    i_point,         \* loop index of the assignment loop
    new_centroids,   \* usion: global per-cluster sums
    cluster_sizes,   \* usion: global per-cluster counts
    local_sums,      \* usion: enumerable_thread_specific local_sums
    local_counts,    \* usion: enumerable_thread_specific local_counts
    todo,            \* usion: indices of a parallel_for(0, K) not yet run
    unclaimed,       \* usion: points of the blocked_range not yet handed out
    output,          \* the "Break in iteration" lines printed by run()
    emptied,         \* history: clusters that had no point at a recomputation
    runs,            \* two executions side by side: clock, rand() state, seeds
    contexts,        \* usion: what each TBB worker thread is executing
    pc               \* position in run()

vars == <<variant, total_points, total_values, K, max_iterations, values,
          id_cluster, chosen_indexes, central_values, members, iter, done,
          i_point, new_centroids, cluster_sizes, local_sums, local_counts,
          todo, unclaimed, output, emptied, runs, contexts, pc>>

\* what main() read from the input
input == <<variant, total_points, total_values, K, max_iterations, values>>

\* the state of the TBB driver, untouched by the sequential drivers
par == <<new_centroids, cluster_sizes, local_sums, local_counts, todo,
         unclaimed>>

\* ------------------------------------------------------- exact arithmetic
RECURSIVE GCD(_, _)
GCD(a, b) == IF b = 0 THEN a ELSE GCD(b, a % b)

Rat(n, d) ==
    LET g == GCD(n, d) IN <<n \div g, d \div g>>

RatOfInt(n) == <<n, 1>>

RatAdd(a, b) == Rat(a[1] * b[2] + b[1] * a[2], a[2] * b[2])

RatLess(a, b) == a[1] * b[2] < b[1] * a[2]

\* (c - p) * (c - p) for a centroid coordinate c and a point coordinate p
DiffSq(c, p) ==
    LET n == c[1] - p * c[2] IN Rat(n * n, c[2] * c[2])

\* numeric_limits<double>::max(): larger than every distance of the model
DBL_MAX == <<1, 0>>

RECURSIVE SumTo(_, _)
SumTo(f, n) == IF n = 0 THEN 0 ELSE f[n - 1] + SumTo(f, n - 1)

RECURSIVE RatSumTo(_, _)
RatSumTo(f, n) ==
    IF n = 0 THEN RatOfInt(0) ELSE RatAdd(RatSumTo(f, n - 1), f[n - 1])

\* ------------------------------------------------------------------ Point
\* Point::Point: the values are copied, the point starts unassigned
NewPointClusters(n) == [p \in 0 .. (n - 1) |-> -1]

\* ---------------------------------------------------------------- Cluster
\* faulty variant of SeedCentral: the centroid starts at the origin
SeedCentralZero(pv) == [j \in DOMAIN pv |-> RatOfInt(0)]

\* Cluster::Cluster: the centroid is a copy of the seed point's values
SeedCentral(pv) == [j \in DOMAIN pv |-> RatOfInt(pv[j])]

\* vector::push_back / emplace_back on a 0-based vector
PushBack(vec, x) ==
    LET n == Cardinality(DOMAIN vec)
    IN [k \in 0 .. n |-> IF k < n THEN vec[k] ELSE x]

\* faulty variant of RemovePoint: the entry is looked for and left in place
RemovePointKeeps(lst, id_point) == lst

\* Cluster::removePoint: erase the first entry whose id is id_point
RemovePoint(lst, id_point) ==
    IF \E k \in 1 .. Len(lst) : lst[k] = id_point
    THEN LET k == CHOOSE k \in 1 .. Len(lst) :
                     /\ lst[k] = id_point
                     /\ \A m \in 1 .. (k - 1) : lst[m] # id_point
         IN SubSeq(lst, 1, k - 1) \o SubSeq(lst, k + 1, Len(lst))
    ELSE lst

\* Cluster::addPoint
AddPoint(lst, id_point) == Append(lst, id_point)

\* ----------------------------------------------------- getIDNearestCenter
\* squared Euclidean distance between centroid cv and point pv
DistSq(cv, pv) ==
    RatSumTo([j \in DOMAIN pv |-> DiffSq(cv[j], pv[j])], Cardinality(DOMAIN pv))

\* faulty variant of ScanCenters: the index of a nearer centroid is never
\* recorded
ScanCentersNoIndex(cvs, pv, k, i, min, id) == id

\* the scan `for (i = from; i < K; i++) if (sum < min) { min = sum; id = i; }`
RECURSIVE ScanCenters(_, _, _, _, _, _)
ScanCenters(cvs, pv, k, i, min, id) ==
    IF i >= k THEN id
    ELSE LET sum == DistSq(cvs[i], pv)
         IN IF RatLess(sum, min)
            THEN ScanCenters(cvs, pv, k, i + 1, sum, i)
            ELSE ScanCenters(cvs, pv, k, i + 1, min, id)

\* faulty variant of NearestLightning: `<=` lets a later centroid win a tie
NearestLightningLastWins(cvs, pv, k) ==
    IF k = 0 THEN 0
    ELSE CHOOSE i \in 0 .. (k - 1) :
            /\ \A c \in 0 .. (k - 1) :
                  ~RatLess(DistSq(cvs[c], pv), DistSq(cvs[i], pv))
            /\ \A c \in (i + 1) .. (k - 1) :
                  RatLess(DistSq(cvs[i], pv), DistSq(cvs[c], pv))

\* lightning-serial, usion-parallel: min starts at DBL_MAX, scan from 0
NearestLightning(cvs, pv, k) == ScanCenters(cvs, pv, k, 0, DBL_MAX, 0)

\* faulty variant of NearestFast: the first minimum is not the distance to
\* clusters[0]
NearestFastSkipsFirst(cvs, pv, k) ==
    IF k = 0 THEN 0 ELSE ScanCenters(cvs, pv, k, 1, DBL_MAX, 0)

\* fast-serial: distance to clusters[0] is the first minimum, scan from 1
\* (with K = 0 the read of clusters[0] is out of range and the scan is empty)
NearestFast(cvs, pv, k) ==
    IF k = 0 THEN 0 ELSE ScanCenters(cvs, pv, k, 1, DistSq(cvs[0], pv), 0)

\* the largest r >= from with r * r * d <= n * SqrtScale * SqrtScale
RECURSIVE RootFrom(_, _, _)
RootFrom(n, d, from) ==
    IF (from + 1) * (from + 1) * d <= n * SqrtScale * SqrtScale
    THEN RootFrom(n, d, from + 1)
    ELSE from

\* sqrt(x) as a double gives it: the root rounded to the precision of the
\* result, here the multiples of 1 / SqrtScale.  Distinct arguments can
\* have the same rounded root.
Sqrt(x) == Rat(RootFrom(x[1], x[2], 0), SqrtScale)

\* kmeans-serial-fast: `dist = sqrt(sum)` for centroid cv and point pv
DistSqrt(cv, pv) == Sqrt(DistSq(cv, pv))

\* the scan of kmeans-serial-fast: `if (dist < min_dist)` on sqrt(sum)
RECURSIVE ScanCentersSqrt(_, _, _, _, _, _)
ScanCentersSqrt(cvs, pv, k, i, min_dist, id) ==
    IF i >= k THEN id
    ELSE LET dist == DistSqrt(cvs[i], pv)
         IN IF RatLess(dist, min_dist)
            THEN ScanCentersSqrt(cvs, pv, k, i + 1, dist, i)
            ELSE ScanCentersSqrt(cvs, pv, k, i + 1, min_dist, id)

\* faulty variant of NearestKsf: `<=` lets a later centroid win a tie
NearestKsfLastWins(cvs, pv, k) ==
    IF k = 0 THEN 0
    ELSE LET last == CHOOSE i \in 0 .. (k - 1) :
                        /\ \A c \in 0 .. (k - 1) :
                              ~RatLess(DistSqrt(cvs[c], pv), DistSqrt(cvs[i], pv))
                        /\ \A c \in (i + 1) .. (k - 1) :
                              RatLess(DistSqrt(cvs[i], pv), DistSqrt(cvs[c], pv))
         IN last

\* kmeans-serial-fast: as fast-serial, on min_dist = sqrt(sum)
\* (with K = 0 the read of clusters[0] is out of range and the scan is empty)
NearestKsf(cvs, pv, k) ==
    IF k = 0 THEN 0
    ELSE ScanCentersSqrt(cvs, pv, k, 1, DistSqrt(cvs[0], pv), 0)

\* the quantity the variant's oracle compares: sum, or sqrt(sum)
Distance(cv, pv) ==
    IF variant = "ksf" THEN DistSqrt(cv, pv) ELSE DistSq(cv, pv)

getIDNearestCenter(pv) ==
    IF variant = "fast" THEN NearestFast(central_values, pv, K)
    ELSE IF variant = "ksf" THEN NearestKsf(central_values, pv, K)
    ELSE NearestLightning(central_values, pv, K)


\* ------------------------------------------------------------ recomputing
\* lightning-serial: `cluster_sizes[cluster_id]++` over points 0 .. (n - 1)
RECURSIVE SumSizes(_, _, _)
SumSizes(idc, n, k) ==
    IF n = 0 THEN [c \in 0 .. (k - 1) |-> 0]
    ELSE LET acc == SumSizes(idc, n - 1, k)
         IN [acc EXCEPT ![idc[n - 1]] = @ + 1]

\* lightning-serial: `new_centroids[cluster_id][j] += points[i].getValue(j)`
RECURSIVE SumValues(_, _, _, _, _)
SumValues(idc, vals, n, k, d) ==
    IF n = 0 THEN [c \in 0 .. (k - 1) |-> [j \in 0 .. (d - 1) |-> 0]]
    ELSE LET acc == SumValues(idc, vals, n - 1, k, d)
         IN [acc EXCEPT ![idc[n - 1]] =
                 [j \in 0 .. (d - 1) |-> @[j] + vals[n - 1][j]]]

\* faulty variant of DivideCentroids: the count is one too large
DivideCentroidsOffByOne(cvs, sums, sizes) ==
    [c \in DOMAIN cvs |->
        IF sizes[c] > 0
        THEN [j \in DOMAIN cvs[c] |-> Rat(sums[c][j], sizes[c] + 1)]
        ELSE cvs[c]]

\* faulty variant of DivideCentroids: a cluster without points is reset
DivideCentroidsReset(cvs, sums, sizes) ==
    [c \in DOMAIN cvs |->
        IF sizes[c] > 0
        THEN [j \in DOMAIN cvs[c] |-> Rat(sums[c][j], sizes[c])]
        ELSE [j \in DOMAIN cvs[c] |-> RatOfInt(0)]]

\* `if (cluster_sizes[i] > 0) setCentralValue(j, new_centroids[i][j] * inv)`
DivideCentroids(cvs, sums, sizes) ==
    [c \in DOMAIN cvs |->
        IF sizes[c] > 0
        THEN [j \in DOMAIN cvs[c] |-> Rat(sums[c][j], sizes[c])]
        ELSE cvs[c]]

\* fast-serial, kmeans-serial-fast: the mean over the cluster's member list
MeanOfMembers(cvs, mem, vals) ==
    [c \in DOMAIN cvs |->
        [j \in DOMAIN cvs[c] |->
            LET total_points_cluster == Len(mem[c])
            IN IF total_points_cluster > 0
               THEN Rat(SumTo([q \in 0 .. (total_points_cluster - 1) |->
                                  vals[mem[c][q + 1]][j]],
                              total_points_cluster),
                        total_points_cluster)
               ELSE cvs[c][j]]]

HasLists == variant \in {"fast", "ksf"}

\* an index into a vector of k elements that the code does not check
InRange(x, k) == x >= 0 /\ x < k

\* a worker thread that is running no task
Idle == [task |-> "idle", i |-> 0 - 1, at |-> "idle", new_cluster |-> 0 - 1]

IdleContexts == [t \in Threads |-> Idle]

\* ------------------------------------------------------------------- Init
Shapes ==
    {s \in (0 .. MaxPoints) \X (1 .. MaxValues) : s[1] * s[2] <= MaxValues}

Init ==
    /\ variant \in Variants
    /\ \E s \in Shapes :
          /\ variant = "usion" => s[1] <= MaxParPoints
          /\ total_points = s[1]
          /\ total_values = s[2]
          /\ values \in [0 .. (s[1] - 1) -> [0 .. (s[2] - 1) -> 0 .. MaxCoord]]
          /\ K \in 0 .. (s[1] + 1)
          /\ id_cluster = NewPointClusters(s[1])
    /\ max_iterations \in 0 .. MaxIter
    /\ chosen_indexes = <<>>
    /\ central_values = <<>>
    /\ members = <<>>
    /\ iter = 0
    /\ done = FALSE
    /\ i_point = 0
    /\ new_centroids = <<>>
    /\ cluster_sizes = <<>>
    /\ local_sums = <<>>
    /\ local_counts = <<>>
    /\ todo = {}
    /\ unclaimed = {}
    /\ output = <<>>
    /\ emptied = {}
    /\ runs = <<>>
    /\ contexts = IdleContexts
    /\ pc = "start"

\* ---------------------------------------------------------------- actions
\* faulty variant of TooManyClusters: one cluster too many gets through
TooManyClustersOffByOne(k, n) == k > n + 1

\* the condition of `if (K > total_points) return;`
TooManyClusters(k, n) == k > n

\* run() is entered: the early return, or on to the seed selection
Start ==
    /\ pc = "start"
    /\ pc' = IF TooManyClusters(K, total_points) THEN "returned" ELSE "select"
    /\ UNCHANGED <<par, input, runs, contexts, output, emptied, id_cluster, chosen_indexes, central_values,
                   members, iter, done, i_point>>

\* the effect of a draw that was not chosen before: the point becomes the
\* seed of the next cluster
TakeSeed(index_point) ==
    LET id == Len(chosen_indexes)
    IN /\ chosen_indexes' = Append(chosen_indexes, index_point)
       /\ id_cluster' = [id_cluster EXCEPT ![index_point] = id]
       /\ central_values' =
              PushBack(central_values, SeedCentral(values[index_point]))
       /\ members' = IF HasLists
                     THEN PushBack(members, <<index_point>>)
                     ELSE members

\* faulty variant of InChosen: only the last chosen index is compared
InChosenLast(index_point) ==
    /\ Len(chosen_indexes) > 0
    /\ chosen_indexes[Len(chosen_indexes)] = index_point

\* chosen_indexes.find(index_point) != end(), or find() on the vector
InChosen(index_point) ==
    \E n \in 1 .. Len(chosen_indexes) : chosen_indexes[n] = index_point

\* one turn of `while (chosen_indexes.size() < K)` with unordered_set::insert
SelectSeed ==
    /\ pc = "select"
    /\ variant # "ksf"
    /\ Len(chosen_indexes) < K
    /\ \E index_point \in 0 .. (total_points - 1) :
          IF ~InChosen(index_point)
          THEN TakeSeed(index_point)
          ELSE UNCHANGED <<chosen_indexes, id_cluster, central_values, members>>
    /\ UNCHANGED <<par, input, runs, contexts, output, emptied, iter, done, i_point, pc>>

\* one turn of `while (true)` inside `for (i < K)` with find() on the vector
SelectSeedKsf ==
    /\ pc = "select"
    /\ variant = "ksf"
    /\ Len(chosen_indexes) < K
    /\ \E index_point \in 0 .. (total_points - 1) :
          IF ~InChosen(index_point)
          THEN TakeSeed(index_point)
          ELSE UNCHANGED <<chosen_indexes, id_cluster, central_values, members>>
    /\ UNCHANGED <<par, input, runs, contexts, output, emptied, iter, done, i_point, pc>>

\* the selection loop ends; the sequential drivers go on with `int iter = 1;`
SeedsDone ==
    /\ pc = "select"
    /\ ~(Len(chosen_indexes) < K)
    /\ IF variant = "usion"
       THEN /\ iter' = iter
            /\ pc' = "presum"
       ELSE /\ iter' = 1
            /\ pc' = "loop"
    /\ UNCHANGED <<par, input, runs, contexts, output, emptied, id_cluster, chosen_indexes, central_values,
                   members, done, i_point>>

\* top of `while (true)`: `bool done = true;` and the assignment loop starts
BeginIteration ==
    /\ pc = "loop"
    /\ done' = TRUE
    /\ i_point' = 0
    /\ pc' = "assign"
    /\ UNCHANGED <<par, input, runs, contexts, output, emptied, id_cluster, chosen_indexes, central_values,
                   members, iter>>

\* the member lists after point p moved from id_old_cluster to id_nearest
MoveMember(mem, p, id_old_cluster, id_nearest_center) ==
    LET removed == IF id_old_cluster # -1
                   THEN [mem EXCEPT ![id_old_cluster] = RemovePoint(@, p)]
                   ELSE mem
    IN [removed EXCEPT ![id_nearest_center] = AddPoint(@, p)]

\* faulty variant of DoneAfter: a first assignment, from -1, is not counted
DoneAfterFirstIgnored(d, id_old_cluster, id_nearest_center) ==
    IF id_old_cluster # id_nearest_center /\ id_old_cluster # -1
    THEN FALSE
    ELSE d

\* faulty variant of DoneAfter: the flag is never cleared
DoneAfterKept(d, id_old_cluster, id_nearest_center) == d

\* `if (id_old_cluster != id_nearest_center) { ...; done = false; }`
DoneAfter(d, id_old_cluster, id_nearest_center) ==
    IF id_old_cluster # id_nearest_center THEN FALSE ELSE d

\* faulty variant of AssignPoint: the centroid of the chosen cluster is
\* moved to the point at once, as an online update would
AssignPointOnline ==
    /\ pc = "assign"
    /\ i_point < total_points
    /\ LET id_old_cluster == id_cluster[i_point]
           id_nearest_center == getIDNearestCenter(values[i_point])
       IN /\ IF id_old_cluster # id_nearest_center
             THEN /\ id_cluster' =
                         [id_cluster EXCEPT ![i_point] = id_nearest_center]
                  /\ members' = IF HasLists /\ K > 0
                                THEN MoveMember(members, i_point, id_old_cluster,
                                                id_nearest_center)
                                ELSE members
             ELSE UNCHANGED <<id_cluster, members>>
          /\ done' = DoneAfter(done, id_old_cluster, id_nearest_center)
          /\ central_values' =
                 IF K > 0
                 THEN [central_values EXCEPT
                          ![id_nearest_center] = SeedCentral(values[i_point])]
                 ELSE central_values
    /\ i_point' = i_point + 1
    /\ IF HasLists /\ K = 0
       THEN pc' \in {"crashed", "assign"}
       ELSE pc' = pc
    /\ UNCHANGED <<par, input, runs, contexts, output, emptied, chosen_indexes, iter>>

\* one turn of the assignment loop (Step 2a).  With K = 0 fast-serial and
\* kmeans-serial-fast index the empty `clusters` vector: undefined
\* behaviour, either the process dies or the run goes on.
AssignPoint ==
    /\ pc = "assign"
    /\ i_point < total_points
    /\ LET id_old_cluster == id_cluster[i_point]
           id_nearest_center == getIDNearestCenter(values[i_point])
       IN /\ IF id_old_cluster # id_nearest_center
             THEN /\ id_cluster' =
                         [id_cluster EXCEPT ![i_point] = id_nearest_center]
                  /\ members' = IF HasLists /\ K > 0
                                THEN MoveMember(members, i_point, id_old_cluster,
                                                id_nearest_center)
                                ELSE members
             ELSE UNCHANGED <<id_cluster, members>>
          /\ done' = DoneAfter(done, id_old_cluster, id_nearest_center)
    /\ i_point' = i_point + 1
    /\ IF HasLists /\ K = 0
       THEN pc' \in {"crashed", "assign"}
       ELSE pc' = pc
    /\ UNCHANGED <<par, input, runs, contexts, output, emptied, chosen_indexes, central_values, iter>>

\* the assignment loop ends
AssignDone ==
    /\ pc = "assign"
    /\ ~(i_point < total_points)
    /\ pc' = "recompute"
    /\ UNCHANGED <<par, input, runs, contexts, output, emptied, id_cluster, chosen_indexes, central_values,
                   members, iter, done, i_point>>

\* the clusters no point is assigned to
NoPoints ==
    {c \in 0 .. (K - 1) : \A p \in 0 .. (total_points - 1) : id_cluster[p] # c}

\* Step 2b of lightning-serial.  A cluster id outside [0, K) indexes
\* cluster_sizes and new_centroids out of range: undefined behaviour.
Recompute ==
    /\ pc = "recompute"
    /\ variant = "lightning"
    /\ IF \A p \in 0 .. (total_points - 1) : InRange(id_cluster[p], K)
       THEN /\ central_values' =
                   DivideCentroids(central_values,
                       SumValues(id_cluster, values, total_points, K, total_values),
                       SumSizes(id_cluster, total_points, K))
            /\ pc' = "check"
       ELSE /\ central_values' = central_values
            /\ pc' \in {"crashed", "check"}
    /\ emptied' = emptied \cup NoPoints
    /\ UNCHANGED <<par, input, runs, contexts, output, id_cluster, chosen_indexes, members, iter,
                   done, i_point>>

\* Step 2b of fast-serial and kmeans-serial-fast
RecomputeFromLists ==
    /\ pc = "recompute"
    /\ HasLists
    /\ central_values' = MeanOfMembers(central_values, members, values)
    /\ pc' = "check"
    /\ emptied' = emptied \cup NoPoints
    /\ UNCHANGED <<par, input, runs, contexts, output, id_cluster, chosen_indexes, members, iter,
                   done, i_point>>

\* faulty variant of ShouldBreak: the iteration limit is not tested
ShouldBreakOnlyConverged == done

\* faulty variant of ShouldBreak: the limit is tested one pass late
ShouldBreakLate == done \/ iter > max_iterations

\* `if (done || iter >= max_iterations) break;`
ShouldBreak == done \/ iter >= max_iterations

\* faulty variant of BreakLine: the count of finished increments is printed
BreakLineOffByOne(n) == [text |-> "Break in iteration", n |-> n - 1]

\* `cout << "Break in iteration " << iter << "\n\n";`
BreakLine(n) == [text |-> "Break in iteration", n |-> n]

\* Step 2c: "Break in iteration <iter>", or `iter++` and another pass
CheckStop ==
    /\ pc = "check"
    /\ IF ShouldBreak
       THEN /\ pc' = "done"
            /\ iter' = iter
            /\ output' = Append(output, BreakLine(iter))
       ELSE /\ pc' = "loop"
            /\ iter' = iter + 1
            /\ output' = output
    /\ UNCHANGED <<par, input, runs, contexts, emptied, id_cluster, chosen_indexes, central_values,
                   members, done, i_point>>

\* ------------------------------------------------------- usion-parallel
\* An access past the end of a vector (operator[] does not check) is
\* undefined behaviour.  Two outcomes are modelled: the process dies
\* (pc = "crashed"), or the run goes on, a write landing outside the
\* vector (lost) and a read giving an indeterminate value.

\* the indeterminate value: a token outside the sums and counts, all >= 0
Indeterminate == 0 - 1

ZeroSums == [c \in 0 .. (K - 1) |-> [j \in 0 .. (total_values - 1) |-> 0]]

ZeroSizes == [c \in 0 .. (K - 1) |-> 0]

\* the initial sums: `cluster_sizes[cluster_id]++` and
\* `new_centroids[cluster_id][j] += ...` for the points 0 .. (n - 1)
RECURSIVE PreSizes(_, _)
PreSizes(idc, n) ==
    IF n = 0 THEN ZeroSizes
    ELSE LET acc == PreSizes(idc, n - 1)
         IN IF InRange(idc[n - 1], K)
            THEN [acc EXCEPT ![idc[n - 1]] = @ + 1]
            ELSE acc

RECURSIVE PreSums(_, _, _)
PreSums(idc, vals, n) ==
    IF n = 0 THEN ZeroSums
    ELSE LET acc == PreSums(idc, vals, n - 1)
         IN IF InRange(idc[n - 1], K)
            THEN [acc EXCEPT ![idc[n - 1]] =
                     [j \in 0 .. (total_values - 1) |-> @[j] + vals[n - 1][j]]]
            ELSE acc

\* "Compute initial sums based on random assignments"; `int iter = 1;`
InitialSums ==
    /\ pc = "presum"
    /\ new_centroids' = PreSums(id_cluster, values, total_points)
    /\ cluster_sizes' = PreSizes(id_cluster, total_points)
    /\ iter' = 1
    /\ IF \A p \in 0 .. (total_points - 1) : InRange(id_cluster[p], K)
       THEN pc' = "uloop"
       ELSE pc' \in {"crashed", "uloop"}
    /\ UNCHANGED <<input, runs, contexts, output, emptied, id_cluster, chosen_indexes, central_values, members,
                   done, i_point, local_sums, local_counts, todo, unclaimed>>

\* top of `while (true)`: the divide parallel_for(0, K) is spawned
UBeginIteration ==
    /\ pc = "uloop"
    /\ todo' = 0 .. (K - 1)
    /\ pc' = "divide"
    /\ UNCHANGED <<input, runs, contexts, output, emptied, id_cluster, chosen_indexes, central_values, members,
                   iter, done, i_point, new_centroids, cluster_sizes,
                   local_sums, local_counts, unclaimed>>

\* body of the divide step for cluster i
DivideOne(cvs, sums, sizes, i) ==
    IF sizes[i] # Indeterminate /\ sizes[i] > 0
    THEN [cvs EXCEPT ![i] = [j \in DOMAIN cvs[i] |-> Rat(sums[i][j], sizes[i])]]
    ELSE cvs

\* one task of "Divide Step: Compute New Centroids"
UDivide ==
    /\ pc = "divide"
    /\ \E i \in todo :
          /\ central_values' =
                 DivideOne(central_values, new_centroids, cluster_sizes, i)
          /\ todo' = todo \ {i}
    /\ UNCHANGED <<input, runs, contexts, output, emptied, id_cluster, chosen_indexes, members, iter, done,
                   i_point, new_centroids, cluster_sizes, local_sums,
                   local_counts, unclaimed, pc>>

\* the divide parallel_for returns; `std::atomic<bool> done(true);` and the
\* fused parallel_for over blocked_range(0, points.size()) is spawned
UDivideDone ==
    /\ pc = "divide"
    /\ todo = {}
    /\ done' = TRUE
    /\ unclaimed' = 0 .. (total_points - 1)
    /\ pc' = "fused"
    /\ UNCHANGED <<input, runs, contexts, output, emptied, id_cluster, chosen_indexes, central_values, members,
                   iter, i_point, new_centroids, cluster_sizes, local_sums,
                   local_counts, todo>>

\* enumerable_thread_specific::local(): the thread's element, default
\* constructed (an empty vector) on the thread's first call
Local(locals, t) ==
    IF t \in DOMAIN locals THEN locals
    ELSE [u \in DOMAIN locals \cup {t} |-> IF u = t THEN <<>> ELSE locals[u]]

\* `vec[index] += x` on a 0-based vector kept as a sequence: the element is
\* updated when it exists, else the write is lost
AddAt(vec, index, x) ==
    IF InRange(index, Len(vec))
    THEN [vec EXCEPT ![index + 1] = @ + x]
    ELSE vec

\* `local_centroids[new_cluster][j] += points[i].getValue(j)` for every j
AddValuesAt(vec, index, pv) ==
    IF InRange(index, Len(vec))
    THEN [vec EXCEPT ![index + 1] = [j \in DOMAIN pv |-> @[j] + pv[j]]]
    ELSE vec

\* The body of the fused parallel_for for point i, run by thread t.  TBB
\* hands every index of the blocked_range to exactly one body call; a
\* sub-range is run as its points one after the other, so a step of one
\* point by any thread covers every split.  The thread-local vectors are
\* empty: both accumulations are out of range.
UAssign ==
    /\ pc = "fused"
    /\ \E t \in Threads, i \in unclaimed :
          LET old_cluster == id_cluster[i]
              new_cluster == NearestLightning(central_values, values[i], K)
              local_centroids == Local(local_sums, t)
              local_cluster_sizes == Local(local_counts, t)
          IN /\ IF old_cluster # new_cluster
                THEN id_cluster' = [id_cluster EXCEPT ![i] = new_cluster]
                ELSE id_cluster' = id_cluster
             /\ done' = DoneAfter(done, old_cluster, new_cluster)
             /\ local_counts' =
                    [local_cluster_sizes EXCEPT ![t] = AddAt(@, new_cluster, 1)]
             /\ local_sums' =
                    [local_centroids EXCEPT
                        ![t] = AddValuesAt(@, new_cluster, values[i])]
             /\ unclaimed' = unclaimed \ {i}
             /\ IF InRange(new_cluster, Len(local_cluster_sizes[t]))
                THEN pc' = pc
                ELSE pc' \in {"crashed", "fused"}
    /\ UNCHANGED <<input, runs, contexts, output, emptied, chosen_indexes, central_values, members, iter,
                   i_point, new_centroids, cluster_sizes, todo>>

\* the fused parallel_for returns; the merge parallel_for(0, K) is spawned
UFusedDone ==
    /\ pc = "fused"
    /\ unclaimed = {}
    /\ todo' = 0 .. (K - 1)
    /\ pc' = "merge"
    /\ UNCHANGED <<input, runs, contexts, output, emptied, id_cluster, chosen_indexes, central_values, members,
                   iter, done, i_point, new_centroids, cluster_sizes,
                   local_sums, local_counts, unclaimed>>

\* x + y where either may be indeterminate
Plus(x, y) ==
    IF x = Indeterminate \/ y = Indeterminate THEN Indeterminate ELSE x + y

\* `vec[index]` read from a 0-based vector kept as a sequence
ReadAt(vec, index) ==
    IF InRange(index, Len(vec)) THEN vec[index + 1] ELSE Indeterminate

\* the sum of f[t] over the thread-local elements in ts
RECURSIVE SumOver(_, _)
SumOver(f, ts) ==
    IF ts = {} THEN 0
    ELSE LET t == CHOOSE t \in ts : TRUE
         IN Plus(f[t], SumOver(f, ts \ {t}))

\* `for (local : local_sums) new_centroids[i][j] += local[i][j]`
MergeSums(sums, locals, i) ==
    [sums EXCEPT ![i] =
        [j \in DOMAIN sums[i] |->
            Plus(@[j],
                 SumOver([t \in DOMAIN locals |->
                             IF InRange(i, Len(locals[t]))
                             THEN locals[t][i + 1][j]
                             ELSE Indeterminate],
                         DOMAIN locals))]]

\* `for (local : local_counts) cluster_sizes[i] += local[i]`
MergeSizes(sizes, locals, i) ==
    [sizes EXCEPT ![i] =
        Plus(@, SumOver([t \in DOMAIN locals |-> ReadAt(locals[t], i)],
                        DOMAIN locals))]

\* one task of "Merge thread-local results"; the reads of the empty
\* thread-local vectors are out of range
UMerge ==
    /\ pc = "merge"
    /\ \E i \in todo :
          /\ new_centroids' = MergeSums(new_centroids, local_sums, i)
          /\ cluster_sizes' = MergeSizes(cluster_sizes, local_counts, i)
          /\ todo' = todo \ {i}
          /\ IF \A t \in DOMAIN local_counts : InRange(i, Len(local_counts[t]))
             THEN pc' = pc
             ELSE pc' \in {"crashed", "merge"}
    /\ UNCHANGED <<input, runs, contexts, output, emptied, id_cluster, chosen_indexes, central_values, members,
                   iter, done, i_point, local_sums, local_counts, unclaimed>>

\* the merge parallel_for returns; "Reset for Next Iteration": both global
\* arrays are filled with zeros
UReset ==
    /\ pc = "merge"
    /\ todo = {}
    /\ cluster_sizes' = ZeroSizes
    /\ new_centroids' = ZeroSums
    /\ pc' = "ucheck"
    /\ UNCHANGED <<input, runs, contexts, output, emptied, id_cluster, chosen_indexes, central_values, members,
                   iter, done, i_point, local_sums, local_counts, todo,
                   unclaimed>>

\* "Check Stopping Condition"; after the break the final parallel_for(0, K)
UCheckStop ==
    /\ pc = "ucheck"
    /\ IF ShouldBreak
       THEN /\ pc' = "final"
            /\ iter' = iter
            /\ todo' = 0 .. (K - 1)
            /\ output' = Append(output, BreakLine(iter))
       ELSE /\ pc' = "uloop"
            /\ iter' = iter + 1
            /\ todo' = todo
            /\ output' = output
    /\ UNCHANGED <<input, runs, contexts, emptied, id_cluster, chosen_indexes, central_values, members,
                   done, i_point, new_centroids, cluster_sizes, local_sums,
                   local_counts, unclaimed>>

\* one task of "Final Computation of Centroids (Ensure Consistency)"
UFinalDivide ==
    /\ pc = "final"
    /\ \E i \in todo :
          /\ central_values' =
                 DivideOne(central_values, new_centroids, cluster_sizes, i)
          /\ todo' = todo \ {i}
    /\ UNCHANGED <<input, runs, contexts, output, emptied, id_cluster, chosen_indexes, members, iter, done,
                   i_point, new_centroids, cluster_sizes, local_sums,
                   local_counts, unclaimed, pc>>

\* the final parallel_for returns; the results are displayed
UFinalDone ==
    /\ pc = "final"
    /\ todo = {}
    /\ pc' = "done"
    /\ UNCHANGED <<input, runs, contexts, output, emptied, id_cluster, chosen_indexes, central_values, members,
                   iter, done, i_point, new_centroids, cluster_sizes,
                   local_sums, local_counts, todo, unclaimed>>

Next ==
    \/ Start
    \/ SelectSeed
    \/ SelectSeedKsf
    \/ SeedsDone
    \/ BeginIteration
    \/ AssignPoint
    \/ AssignDone
    \/ Recompute
    \/ RecomputeFromLists
    \/ CheckStop
    \/ InitialSums
    \/ UBeginIteration
    \/ UDivide
    \/ UDivideDone
    \/ UAssign
    \/ UFusedDone
    \/ UMerge
    \/ UReset
    \/ UCheckStop
    \/ UFinalDivide
    \/ UFinalDone

Spec == Init /\ [][Next]_vars

\* `for (int i = 0; i < total_points; i++)` of Step 2a goes on to the next
\* point: what an AssignPoint step does to the loop counter
AssignTurn ==
    /\ pc = "assign"
    /\ i_point < total_points
    /\ i_point' = i_point + 1

\* the fused parallel_for hands out another index of its range: what a
\* UAssign step does to the range
UAssignTurn ==
    /\ pc = "fused"
    /\ \E i \in unclaimed : unclaimed' = unclaimed \ {i}

\* the steps other than the turns of the two assignment loops
OtherSteps ==
    \/ Start
    \/ SelectSeed
    \/ SelectSeedKsf
    \/ SeedsDone
    \/ BeginIteration
    \/ AssignDone
    \/ Recompute
    \/ RecomputeFromLists
    \/ CheckStop
    \/ InitialSums
    \/ UBeginIteration
    \/ UDivide
    \/ UDivideDone
    \/ UFusedDone
    \/ UMerge
    \/ UReset
    \/ UCheckStop
    \/ UFinalDivide
    \/ UFinalDone

\* The process is scheduled until it ends: the loops go on to their next
\* turn and the tasks of a parallel_for are run.  A turn of the seed
\* selection that changes nothing (a draw of a chosen index) is followed by
\* another draw: every point index is drawn eventually.
LiveSpec ==
    /\ Init
    /\ [][Next]_vars
    /\ WF_vars(OtherSteps)
    /\ WF_i_point(AssignTurn)
    /\ WF_unclaimed(UAssignTurn)

\* ------------------------------------------- the oracle as a pure function
\* numbers of clusters and of dimensions of a query
QueryShapes ==
    {s \in (1 .. MaxQueryCells) \X (1 .. MaxQueryCells) :
        s[1] * s[2] <= MaxQueryCells /\ s[2] <= s[1]}

\* a KMeans object with K >= 1 clusters at any centroids and one point
OracleInit ==
    /\ variant \in Variants
    /\ \E s \in QueryShapes :
          /\ K = s[1]
          /\ total_values = s[2]
          /\ central_values \in
                 [0 .. (s[1] - 1) ->
                     [0 .. (s[2] - 1) -> {RatOfInt(c) : c \in 0 .. MaxQuery}]]
          /\ values \in [{0} -> [0 .. (s[2] - 1) -> 0 .. MaxQuery]]
    /\ total_points = 1
    /\ id_cluster = NewPointClusters(1)
    /\ max_iterations = 0
    /\ chosen_indexes = <<>>
    /\ members = <<>>
    /\ iter = 0
    /\ done = FALSE
    /\ i_point = 0
    /\ new_centroids = <<>>
    /\ cluster_sizes = <<>>
    /\ local_sums = <<>>
    /\ local_counts = <<>>
    /\ todo = {}
    /\ unclaimed = {}
    /\ output = <<>>
    /\ emptied = {}
    /\ runs = <<>>
    /\ contexts = IdleContexts
    /\ pc = "query"

\* `int id_nearest_center = getIDNearestCenter(points[i]);` and
\* `points[i].setCluster(id_nearest_center);`
OracleCall ==
    /\ pc = "query"
    /\ id_cluster' = [id_cluster EXCEPT ![0] = getIDNearestCenter(values[0])]
    /\ pc' = "answered"
    /\ UNCHANGED <<par, input, runs, contexts, output, emptied, chosen_indexes, central_values,
                   members, iter, done, i_point>>

OracleNext == OracleCall

OracleSpec == OracleInit /\ [][OracleNext]_vars

\* ---------------------------------------- the sequential run as a function
\* clusters and cluster ids as the seed selection leaves them
SeedCentroids ==
    [i \in 0 .. (Len(chosen_indexes) - 1) |->
        SeedCentral(values[chosen_indexes[i + 1]])]

SeedIds ==
    [p \in 0 .. (total_points - 1) |->
        IF InChosen(p)
        THEN (CHOOSE n \in 1 .. Len(chosen_indexes) : chosen_indexes[n] = p) - 1
        ELSE -1]

\* Step 2a of lightning-serial over all points
SeqAssign(cvs) ==
    [p \in 0 .. (total_points - 1) |-> NearestLightning(cvs, values[p], K)]

\* Step 2b of lightning-serial
SeqRecompute(cvs, idc) ==
    DivideCentroids(cvs,
                    SumValues(idc, values, total_points, K, total_values),
                    SumSizes(idc, total_points, K))

\* the `while (true)` loop of lightning-serial from pass `it` on
RECURSIVE SeqRun(_, _, _)
SeqRun(cvs, idc, it) ==
    LET ids == SeqAssign(cvs)
        cen == SeqRecompute(cvs, ids)
    IN IF ids = idc \/ it >= max_iterations
       THEN [id_cluster |-> ids, central_values |-> cen, iter |-> it]
       ELSE SeqRun(cen, ids, it + 1)

\* the action model of lightning-serial ends where SeqRun ends
SeqRunAgrees ==
    (variant = "lightning" /\ pc = "done" /\ K >= 1) =>
        LET r == SeqRun(SeedCentroids, SeedIds, 1)
        IN /\ id_cluster = r.id_cluster
           /\ central_values = r.central_values
           /\ iter = r.iter

\* ------------------------------------------------------------- properties
Points == 0 .. (total_points - 1)

Clusters == 0 .. (K - 1)

PointsOf(i) == {p \in Points : id_cluster[p] = i}

RECURSIVE SumOfCoord(_, _)
SumOfCoord(ps, j) ==
    IF ps = {} THEN 0
    ELSE LET p == CHOOSE p \in ps : TRUE
         IN values[p][j] + SumOfCoord(ps \ {p}, j)

\* centroid i is the component-wise arithmetic mean of the points of cluster i
IsMean(i) ==
    \A j \in 0 .. (total_values - 1) :
        central_values[i][j] =
            Rat(SumOfCoord(PointsOf(i), j), Cardinality(PointsOf(i)))

MaxOf(a, b) == IF a >= b THEN a ELSE b

Sequential == variant \in {"lightning", "fast", "ksf"}

\* C1: for every run with 0 <= K <= total_points, when run() returns every
\* point's cluster_id is a cluster index in [0, K).  (With K = 0 and a point
\* in the store the oracle answers 0, which is no index in [0, 0), and the
\* driver indexes empty vectors with it.)
C1_AsStated ==
    (pc = "done" /\ 0 <= K /\ K <= total_points) =>
        \A p \in Points : InRange(id_cluster[p], K)

\* the part of C1 the drivers keep: the runs with 1 <= K
ClusterIdsValidFromOne ==
    (pc = "done" /\ 1 <= K /\ K <= total_points) =>
        \A p \in Points : InRange(id_cluster[p], K)

\* C2: in the sequential drivers, after every recomputation, every cluster
\* with at least one assigned point has as centroid the component-wise mean
\* of the points whose cluster_id is its index.
C2_CentroidIsMean ==
    (Sequential /\ pc \in {"check", "done"}) =>
        \A i \in Clusters : PointsOf(i) # {} => IsMean(i)

\* a recomputation that gave a centroid a coordinate that is no integer
C2_Witness ==
    /\ Sequential
    /\ pc = "check"
    /\ \E i \in Clusters :
          /\ Cardinality(PointsOf(i)) >= 2
          /\ \E j \in 0 .. (total_values - 1) : central_values[i][j][2] > 1

\* C3 as stated: when the run of usion-parallel stops, every cluster with at
\* least one assigned point has as centroid the mean of its points.
C3_AsStated ==
    (variant = "usion" /\ pc = "done") =>
        \A i \in Clusters : PointsOf(i) # {} => IsMean(i)

\* C4 as stated: from the same seeds on the same points usion-parallel stops
\* with the cluster ids and the centroids of the sequential driver.
C4_AsStated ==
    (variant = "usion" /\ pc = "done" /\ K >= 1) =>
        LET r == SeqRun(SeedCentroids, SeedIds, 1)
        IN /\ id_cluster = r.id_cluster
           /\ central_values = r.central_values

\* C5: when the driver has stopped with no point changed in the last
\* assignment pass, the oracle applied to every point against the final
\* centroids answers the point's current cluster_id.
C5_ConvergedIsFixpoint ==
    (pc = "done" /\ done) =>
        \A p \in Points : getIDNearestCenter(values[p]) = id_cluster[p]

\* a run that converged in a later pass, the oracle having given a point
\* that was no seed to a cluster other than the first
C5_Witness ==
    /\ pc = "done"
    /\ done
    /\ iter >= 2
    /\ \E p \in Points : ~InChosen(p) /\ id_cluster[p] >= 1

StopReasons == {"CONVERGED", "ITERATION_LIMIT_REACHED"}

StrictlyNearest(cvs, i, pv) ==
    \A c \in Clusters \ {i} :
        RatLess(Distance(cvs[i], pv), Distance(cvs[c], pv))

\* C8: a recomputation leaves the centroid of every cluster without points
\* as it was, and the cluster stays a candidate of the oracle: a point
\* strictly nearest to it is given to it.
C8_EmptyClusterKept ==
    /\ [][(pc = "recompute" /\ pc' = "check") =>
             \A i \in NoPoints :
                 /\ i \in DOMAIN central_values'
                 /\ central_values'[i] = central_values[i]]_vars
    /\ [](pc = "check" =>
             \A i \in NoPoints :
                 \A p \in Points :
                     StrictlyNearest(central_values, i, values[p]) =>
                         getIDNearestCenter(values[p]) = i)

\* a cluster that had no point at a recomputation and has points again
C8_Witness ==
    /\ pc = "check"
    /\ \E i \in emptied : PointsOf(i) # {}

\* C9: when K > total_points run() returns at once: no seed is selected, no
\* cluster is created, no pass runs, nothing is printed, every cluster_id
\* stays -1, and the run is at its start or has returned.
C9_TooManyClustersNoOp ==
    K > total_points =>
        /\ pc \in {"start", "returned"}
        /\ chosen_indexes = <<>>
        /\ central_values = <<>>
        /\ members = <<>>
        /\ iter = 0
        /\ output = <<>>
        /\ \A p \in Points : id_cluster[p] = -1

\* run() has returned on a store that holds points
C9_Witness ==
    /\ pc = "returned"
    /\ total_points >= 1
    /\ K = total_points + 1

DistinctSeeds ==
    \A m, n \in 1 .. Len(chosen_indexes) :
        m # n => chosen_indexes[m] # chosen_indexes[n]

\* C10: the chosen point indices are pairwise distinct at every moment; when
\* the selection has ended there are exactly K of them and K clusters, the
\* centroid of cluster i being the values of the i-th chosen point.
C10_DistinctSeeds ==
    /\ DistinctSeeds
    /\ pc \notin {"start", "select", "returned"} =>
          /\ Len(chosen_indexes) = K
          /\ DOMAIN central_values = Clusters
    /\ ((pc = "loop" /\ iter = 1) \/ pc = "presum") =>
          central_values = SeedCentroids

\* kmeans-serial-fast seeded two clusters out of three points, the second
\* draw below the first
C10_Witness ==
    /\ variant = "ksf"
    /\ pc = "loop"
    /\ iter = 1
    /\ K = 2
    /\ total_points = 3
    /\ chosen_indexes[2] < chosen_indexes[1]

\* C11: when the seed selection has ended, for each i in [0, K) the i-th
\* chosen point has cluster_id = i and cluster i (the i-th of `clusters`)
\* has that point's coordinates as centroid; every point that was not
\* chosen still has cluster_id = -1.
C11_SeedsAssigned ==
    ((pc = "loop" /\ iter = 1) \/ pc = "presum") =>
        /\ \A i \in Clusters :
              /\ id_cluster[chosen_indexes[i + 1]] = i
              /\ i \in DOMAIN central_values
              /\ \A j \in 0 .. (total_values - 1) :
                    central_values[i][j] = <<values[chosen_indexes[i + 1]][j], 1>>
        /\ \A p \in Points : ~InChosen(p) => id_cluster[p] = -1

\* fast-serial seeded two clusters, the second from a point with a
\* coordinate that is not 0, and left a third point unassigned
C11_Witness ==
    /\ variant = "fast"
    /\ pc = "loop"
    /\ iter = 1
    /\ K = 2
    /\ total_points = 3
    /\ values[chosen_indexes[2]][0] = 1
    /\ \E p \in Points : id_cluster[p] = -1

Initialized == pc \notin {"start", "select", "returned", "query", "answered"}

\* C13: in every state after initialization each point's cluster_id is -1
\* or a value in [0, K).  (With K = 0 the first assignment of a point gives
\* it cluster_id 0.)
C13_AsStated ==
    Initialized =>
        \A p \in Points : id_cluster[p] = -1 \/ InRange(id_cluster[p], K)

\* the part of C13 the drivers keep, for 1 <= K: the ids stay in
\* {-1} \cup [0, K), and no point is unassigned after the first pass
ClusterIdsFromOne ==
    (Initialized /\ 1 <= K) =>
        /\ \A p \in Points : id_cluster[p] = -1 \/ InRange(id_cluster[p], K)
        /\ pc \in {"recompute", "check", "done", "merge", "ucheck", "final"} =>
              \A p \in Points : id_cluster[p] # -1

\* an assigned point is never unassigned again
NeverUnassigned ==
    [][\A p \in Points : id_cluster[p] # -1 => id_cluster'[p] # -1]_vars

\* the places where point p is in a member list
PlacesOf(p) ==
    {x \in Clusters \X (1 .. total_points) :
        /\ x[1] \in DOMAIN members
        /\ x[2] <= Len(members[x[1]])
        /\ members[x[1]][x[2]] = p}

\* after a completed assignment pass: every point in exactly one of the K
\* clusters, the counts of the recomputation adding up, K centroids
Partitioned ==
    /\ \A p \in Points : InRange(id_cluster[p], K)
    /\ DOMAIN central_values = Clusters
    /\ HasLists =>
          /\ DOMAIN members = Clusters
          /\ \A p \in Points :
                /\ Cardinality(PlacesOf(p)) = 1
                /\ \A x \in PlacesOf(p) : x[1] = id_cluster[p]
          /\ SumTo([c \in Clusters |-> Len(members[c])], K) = total_points
    /\ (variant = "lightning" /\ pc = "recompute") =>
          SumTo(SumSizes(id_cluster, total_points, K), K) = total_points
    /\ (variant = "usion" /\ pc = "divide") =>
          SumTo(cluster_sizes, K) = total_points

\* C14: after every completed assignment pass the clusters partition the
\* point set, the per-cluster counts the recomputation uses sum to
\* total_points, and there are exactly K centroids.  (In usion-parallel
\* the counts the divide step reads are those of the previous pass.)
C14_AsStated ==
    \/ pc \in {"recompute", "check", "done", "merge", "ucheck", "final"}
    \/ (pc = "divide" /\ iter >= 2)
    => Partitioned

\* the part of C14 the sequential drivers keep, for 1 <= K
PartitionFromOne ==
    (Sequential /\ 1 <= K /\ pc \in {"recompute", "check", "done"})
    => Partitioned

\* C14 narrowed to usion-parallel with 1 <= K, where every cluster_id is in
\* range: not kept either, the counts are zero when the divide step runs
C14_Concurrent ==
    (variant = "usion" /\ 1 <= K /\ pc = "divide" /\ iter >= 2)
    => Partitioned

\* the iteration the "Break in iteration" line reports
Reported == output[Len(output)].n

\* C15: with K = 1, total_points >= 1 and max_iterations >= 1 every point is
\* in cluster 0 once the first assignment pass is over and stays there; the
\* pass that takes the unseeded points from -1 to 0 counts as a pass with
\* changes, so the run reports iteration 1 only when the seed is the only
\* point or max_iterations = 1, and iteration 2 otherwise.
C15_SingleCluster ==
    (K = 1 /\ total_points >= 1 /\ max_iterations >= 1) =>
        /\ pc \in {"recompute", "check", "done"} =>
               \A p \in Points : id_cluster[p] = 0
        /\ (pc = "check" /\ iter = 1) => (done <=> total_points = 1)
        /\ pc = "done" =>
               Reported = IF total_points = 1 \/ max_iterations = 1
                          THEN 1 ELSE 2

\* C15 reached: three points, one cluster, the run reports iteration 2
C15_Witness ==
    /\ pc = "done"
    /\ variant = "fast"
    /\ K = 1
    /\ total_points = 3
    /\ max_iterations = 2
    /\ Reported = 2
    /\ \A p \in Points : id_cluster[p] = 0

\* C15 as the scenario states it: with K = 1 the run stops reporting
\* iteration 1
C15_AsStated ==
    (K = 1 /\ total_points >= 1 /\ max_iterations >= 1 /\ pc = "done") =>
        /\ \A p \in Points : id_cluster[p] = 0
        /\ Reported = 1

\* the cluster seeded from point p
SeedOf(p) == (CHOOSE n \in 1 .. Len(chosen_indexes) : chosen_indexes[n] = p) - 1

\* the points with the coordinates of point p
CopiesOf(p) == {q \in Points : values[q] = values[p]}

\* the lowest cluster seeded from a point with the coordinates of p
LowestSeedOf(p) ==
    CHOOSE i \in Clusters :
        /\ \E q \in CopiesOf(p) : SeedOf(q) = i
        /\ \A q \in CopiesOf(p) : SeedOf(q) >= i

\* the first assignment pass is over, the second has not begun
FirstPassOver ==
    /\ iter = 1
    /\ pc \in {"recompute", "check", "merge", "ucheck", "final", "done"}

\* some two points have the same coordinates
Duplicates == \E p \in Points : CopiesOf(p) # {p}

ScenarioInit ==
    /\ variant \in {"lightning", "fast", "ksf"}
    /\ total_points = 5
    /\ total_values = 2
    /\ K = 2
    /\ max_iterations = 100
    /\ values = [p \in 0 .. 4 |-> [j \in 0 .. 1 |-> 2 * p + j + 1]]
    /\ id_cluster = NewPointClusters(5)
    /\ chosen_indexes = <<>>
    /\ central_values = <<>>
    /\ members = <<>>
    /\ iter = 0
    /\ done = FALSE
    /\ i_point = 0
    /\ new_centroids = <<>>
    /\ cluster_sizes = <<>>
    /\ local_sums = <<>>
    /\ local_counts = <<>>
    /\ todo = {}
    /\ unclaimed = {}
    /\ output = <<>>
    /\ emptied = {}
    /\ runs = <<>>
    /\ contexts = IdleContexts
    /\ pc = "start"

\* run() of the sequential drivers
ScenarioNext ==
    \/ Start
    \/ SelectSeed
    \/ SelectSeedKsf
    \/ SeedsDone
    \/ BeginIteration
    \/ AssignPoint
    \/ AssignDone
    \/ Recompute
    \/ RecomputeFromLists
    \/ CheckStop

ScenarioSpec == ScenarioInit /\ [][ScenarioNext]_vars

\* C17: for the 5 points (1,2) (3,4) (5,6) (7,8) (9,10) with K = 2 and
\* max_iterations = 100, for every choice of two distinct seed points the run
\* stops at or before iteration 100 with both clusters non-empty and every
\* one of the 5 points in exactly one of them.
C17_FivePoints ==
    /\ iter <= 100
    /\ pc \notin {"returned", "crashed"}
    /\ pc = "done" =>
          /\ Reported <= 100
          /\ PointsOf(0) # {}
          /\ PointsOf(1) # {}
          /\ PointsOf(0) \cup PointsOf(1) = 0 .. 4
          /\ Partitioned

\* C17 reached: seeded from the two leftmost points, the run has stopped
\* after more than one pass with the clusters {0, 1} and {2, 3, 4}
C17_Witness ==
    /\ pc = "done"
    /\ chosen_indexes = <<0, 1>>
    /\ Reported >= 2
    /\ PointsOf(0) = {0, 1}
    /\ PointsOf(1) = {2, 3, 4}

\* run() has returned, or the process has been ended by an undefined access
Terminated == pc \in {"done", "returned", "crashed"}

C19_ChangedPreventsConverged ==
    [][Sequential =>
          /\ (pc = "loop" /\ pc' = "assign") => done'
          /\ (pc = "assign" /\ i_point' # i_point) =>
                /\ id_cluster'[i_point] = getIDNearestCenter(values[i_point])
                /\ \A p \in Points \ {i_point} : id_cluster'[p] = id_cluster[p]
                /\ done' <=> (done /\ id_cluster'[i_point] = id_cluster[i_point])
          /\ (pc = "assign" /\ i_point' = i_point) => done' = done
          /\ pc = "recompute" => (done' = done /\ id_cluster' = id_cluster)
          /\ (pc = "check" /\ pc' = "done") => (done \/ iter >= max_iterations)
          /\ (pc = "check" /\ ~done /\ iter < max_iterations) => pc' = "loop"
    ]_vars

\* C19 reached: the first pass of lightning-serial changed one point only,
\* the third one, from -1 to a cluster, and a second pass is about to begin
C19_Witness ==
    /\ pc = "loop"
    /\ variant = "lightning"
    /\ iter = 2
    /\ total_points = 3
    /\ ~done
    /\ Cardinality({p \in Points : id_cluster[p] # SeedIds[p]}) = 1
    /\ \E p \in Points : SeedIds[p] = -1 /\ id_cluster[p] # -1

\* --------------------------------------- the seeding of two runs of main()
Runs == {1, 2}

\* the state of rand() before srand() was called
Unseeded == 0 - 1

RandModulus == 2 ^ RandBits

\* rand() as a linear congruential generator of full period on RandBits bits
NextRand(state) == (5 * state + 3) % RandModulus

\* the argument of srand() in fast-serial
FastSerialSeed == 69

\* the argument of srand() in usion-parallel
UsionSeed == 10

\* the argument main() passes to srand(): `srand(69)`, `srand(10)`, or
\* `srand(time(NULL))` in lightning-serial and kmeans-serial-fast
SrandArgument(v, time) ==
    IF v = "fast" THEN FastSerialSeed
    ELSE IF v = "usion" THEN UsionSeed
    ELSE time

\* two executions of the same variant on the same input, each started at
\* some time of the clock
SeedingInit ==
    /\ variant \in Variants
    /\ total_points \in 1 .. MaxPoints
    /\ K \in 0 .. total_points
    /\ total_values = 1
    /\ values = [p \in 0 .. (total_points - 1) |-> [j \in {0} |-> 0]]
    /\ max_iterations = 0
    /\ runs \in [Runs -> [time : 0 .. MaxClock,
                          state : {Unseeded},
                          chosen_indexes : {<<>>}]]
    /\ contexts = IdleContexts
    /\ id_cluster = NewPointClusters(total_points)
    /\ chosen_indexes = <<>>
    /\ central_values = <<>>
    /\ members = <<>>
    /\ iter = 0
    /\ done = FALSE
    /\ i_point = 0
    /\ new_centroids = <<>>
    /\ cluster_sizes = <<>>
    /\ local_sums = <<>>
    /\ local_counts = <<>>
    /\ todo = {}
    /\ unclaimed = {}
    /\ output = <<>>
    /\ emptied = {}
    /\ pc = "main"

\* the first statement of main() in run r
Srand(r) ==
    /\ runs[r].state = Unseeded
    /\ runs' = [runs EXCEPT
                   ![r].state = SrandArgument(variant, runs[r].time) % RandModulus]
    /\ UNCHANGED <<par, input, contexts, output, emptied, id_cluster,
                   chosen_indexes, central_values, members, iter, done,
                   i_point, pc>>

\* one turn of the selection loop in run r:
\* `int index_point = rand() % total_points;` and the insert if it is new
Draw(r) ==
    /\ runs[r].state # Unseeded
    /\ Len(runs[r].chosen_indexes) < K
    /\ LET drawn == NextRand(runs[r].state)
           index_point == drawn % total_points
           chosen == runs[r].chosen_indexes
       IN runs' = [runs EXCEPT
                      ![r].state = drawn,
                      ![r].chosen_indexes =
                          IF \E n \in 1 .. Len(chosen) : chosen[n] = index_point
                          THEN chosen
                          ELSE Append(chosen, index_point)]
    /\ UNCHANGED <<par, input, contexts, output, emptied, id_cluster,
                   chosen_indexes, central_values, members, iter, done,
                   i_point, pc>>

SeedingNext == \E r \in Runs : Srand(r) \/ Draw(r)

SeedingSpec == SeedingInit /\ [][SeedingNext]_vars

\* run r has selected its K seeds
Selected(r) ==
    /\ runs[r].state # Unseeded
    /\ Len(runs[r].chosen_indexes) = K

\* C20 as stated: two runs of the same variant on the same input select the
\* same initial centroids (and so produce the same assignments, centroids
\* and iteration count), every variant seeding rand() with a fixed constant.
C20_AsStated ==
    (Selected(1) /\ Selected(2)) =>
        runs[1].chosen_indexes = runs[2].chosen_indexes

\* the variants that do call srand() with a constant select the same seeds
\* in both runs
SameSeedsWhenFixed ==
    (variant \in {"fast", "usion"} /\ Selected(1) /\ Selected(2)) =>
        runs[1].chosen_indexes = runs[2].chosen_indexes

\* the count for cluster c in the private accumulators, over all contexts
LocalCountOf(c) ==
    SumOver([t \in DOMAIN local_counts |-> ReadAt(local_counts[t], c)],
            DOMAIN local_counts)

\* C21 as stated: in usion-parallel, when the merge starts every context's
\* private accumulator is an array of K rows of sums and an array of K
\* counts, and over the contexts the counts of a cluster add up to the
\* number of points given to it in this pass (the accumulators started the
\* pass at zero).
C21_AsStated ==
    (variant = "usion" /\ pc = "merge") =>
        /\ \A t \in DOMAIN local_counts : Len(local_counts[t]) = K
        /\ \A t \in DOMAIN local_sums : Len(local_sums[t]) = K
        /\ \A c \in Clusters : LocalCountOf(c) = Cardinality(PointsOf(c))

\* the private accumulators of usion-parallel are never given a size: every
\* one that exists is an empty vector, in every state
AccumulatorsNeverSized ==
    /\ \A t \in DOMAIN local_counts : local_counts[t] = <<>>
    /\ \A t \in DOMAIN local_sums : local_sums[t] = <<>>

\* ------------------------------ usion-parallel at the grain of task steps
\* The three parallel_for calls of an iteration, and the final one, with the
\* worker threads as contexts: a context takes a task (an index of
\* parallel_for(0, K), or a point of the blocked_range), and the statements
\* of the body are steps of their own, so that the accesses of two contexts
\* to the shared vectors can be pending at the same time.  parallel_for
\* returns to the main thread when every task has been run to its end.
\* faulty variant of AllIdle: a parallel_for that returns as soon as every
\* task has been taken, without waiting for the running ones
AllTaken == TRUE

AllIdle == \A t \in Threads : contexts[t] = Idle

Running(t, task, i, at, new_cluster) ==
    [contexts EXCEPT
        ![t] = [task |-> task, i |-> i, at |-> at, new_cluster |-> new_cluster]]

\* context t takes index i of the divide parallel_for, or of the final one
TakeDivide(t) ==
    /\ pc \in {"divide", "final"}
    /\ contexts[t] = Idle
    /\ \E i \in todo :
          /\ todo' = todo \ {i}
          /\ contexts' = Running(t, "divide", i, "divide", 0 - 1)
    /\ UNCHANGED <<input, runs, output, emptied, id_cluster, chosen_indexes,
                   central_values, members, iter, done, i_point,
                   new_centroids, cluster_sizes, local_sums, local_counts,
                   unclaimed, pc>>

\* `if (cluster_sizes[i] > 0) { ... setCentralValue(j, ...); }` by context t
RunDivide(t) ==
    /\ pc \in {"divide", "final"}
    /\ contexts[t].at = "divide"
    /\ central_values' =
           DivideOne(central_values, new_centroids, cluster_sizes,
                     contexts[t].i)
    /\ contexts' = [contexts EXCEPT ![t] = Idle]
    /\ UNCHANGED <<input, runs, output, emptied, id_cluster, chosen_indexes,
                   members, iter, done, i_point, new_centroids,
                   cluster_sizes, local_sums, local_counts, todo, unclaimed,
                   pc>>

\* context t takes point i of the blocked_range: `local_sums.local()` and
\* `local_counts.local()` give it its elements, empty when new
TakePoint(t) ==
    /\ pc = "fused"
    /\ contexts[t] = Idle
    /\ \E i \in unclaimed :
          /\ unclaimed' = unclaimed \ {i}
          /\ contexts' = Running(t, "fused", i, "oracle", 0 - 1)
    /\ local_sums' = Local(local_sums, t)
    /\ local_counts' = Local(local_counts, t)
    /\ UNCHANGED <<input, runs, output, emptied, id_cluster, chosen_indexes,
                   central_values, members, iter, done, i_point,
                   new_centroids, cluster_sizes, todo, pc>>

\* `int old_cluster = points[i].getCluster();
\*  int new_cluster = getIDNearestCenter(points[i]);`
RunOracle(t) ==
    /\ pc = "fused"
    /\ contexts[t].at = "oracle"
    /\ LET i == contexts[t].i
           new_cluster == NearestLightning(central_values, values[i], K)
       IN contexts' =
              Running(t, "fused", i,
                      IF id_cluster[i] # new_cluster THEN "set"
                      ELSE "accumulate",
                      new_cluster)
    /\ UNCHANGED <<par, input, runs, output, emptied, id_cluster,
                   chosen_indexes, central_values, members, iter, done,
                   i_point, pc>>

\* `points[i].setCluster(new_cluster); done.store(false, relaxed);`
RunSet(t) ==
    /\ pc = "fused"
    /\ contexts[t].at = "set"
    /\ LET i == contexts[t].i
           new_cluster == contexts[t].new_cluster
       IN /\ done' = DoneAfter(done, id_cluster[i], new_cluster)
          /\ id_cluster' = [id_cluster EXCEPT ![i] = new_cluster]
          /\ contexts' = Running(t, "fused", i, "accumulate", new_cluster)
    /\ UNCHANGED <<par, input, runs, output, emptied, chosen_indexes,
                   central_values, members, iter, i_point, pc>>

\* `local_cluster_sizes[new_cluster]++;` and
\* `local_centroids[new_cluster][j] += points[i].getValue(j);` for every j
RunAccumulate(t) ==
    /\ pc = "fused"
    /\ contexts[t].at = "accumulate"
    /\ LET i == contexts[t].i
           new_cluster == contexts[t].new_cluster
       IN /\ local_counts' =
                 [local_counts EXCEPT ![t] = AddAt(@, new_cluster, 1)]
          /\ local_sums' =
                 [local_sums EXCEPT
                     ![t] = AddValuesAt(@, new_cluster, values[i])]
          /\ IF InRange(new_cluster, Len(local_counts[t]))
             THEN pc' = pc
             ELSE pc' \in {"crashed", "fused"}
    /\ contexts' = [contexts EXCEPT ![t] = Idle]
    /\ UNCHANGED <<input, runs, output, emptied, id_cluster, chosen_indexes,
                   central_values, members, iter, done, i_point,
                   new_centroids, cluster_sizes, todo, unclaimed>>

\* context t takes index i of the merge parallel_for
TakeMerge(t) ==
    /\ pc = "merge"
    /\ contexts[t] = Idle
    /\ \E i \in todo :
          /\ todo' = todo \ {i}
          /\ contexts' = Running(t, "merge", i, "merge", 0 - 1)
    /\ UNCHANGED <<input, runs, output, emptied, id_cluster, chosen_indexes,
                   central_values, members, iter, done, i_point,
                   new_centroids, cluster_sizes, local_sums, local_counts,
                   unclaimed, pc>>

\* the body of the merge for index i by context t
RunMerge(t) ==
    /\ pc = "merge"
    /\ contexts[t].at = "merge"
    /\ LET i == contexts[t].i
       IN /\ new_centroids' = MergeSums(new_centroids, local_sums, i)
          /\ cluster_sizes' = MergeSizes(cluster_sizes, local_counts, i)
          /\ IF \A u \in DOMAIN local_counts : InRange(i, Len(local_counts[u]))
             THEN pc' = pc
             ELSE pc' \in {"crashed", "merge"}
    /\ contexts' = [contexts EXCEPT ![t] = Idle]
    /\ UNCHANGED <<input, runs, output, emptied, id_cluster, chosen_indexes,
                   central_values, members, iter, done, i_point, local_sums,
                   local_counts, todo, unclaimed>>

\* a parallel_for returns when its last task has ended
DivideReturns == AllIdle /\ UDivideDone

FusedReturns == AllIdle /\ UFusedDone

MergeReturns == AllIdle /\ UReset

FinalReturns == AllIdle /\ UFinalDone

TaskInit == Init /\ variant = "usion"

TaskNext ==
    \/ Start
    \/ SelectSeed
    \/ SeedsDone
    \/ InitialSums
    \/ UBeginIteration
    \/ \E t \in Threads : TakeDivide(t)
    \/ \E t \in Threads : RunDivide(t)
    \/ DivideReturns
    \/ \E t \in Threads : TakePoint(t)
    \/ \E t \in Threads : RunOracle(t)
    \/ \E t \in Threads : RunSet(t)
    \/ \E t \in Threads : RunAccumulate(t)
    \/ FusedReturns
    \/ \E t \in Threads : TakeMerge(t)
    \/ \E t \in Threads : RunMerge(t)
    \/ MergeReturns
    \/ UCheckStop
    \/ FinalReturns

TaskSpec == TaskInit /\ [][TaskNext]_vars

\* a memory location: an element of a shared vector, or, for an index past
\* the end of a vector, the address the index gives from the vector's
\* storage pointer.  An empty vector has no storage: the pointer is null in
\* every context, and equal offsets from it are one address.
Location(kind, owner, index) == [kind |-> kind, owner |-> owner, index |-> index]

Read(loc) == [loc |-> loc, write |-> FALSE, atomic |-> FALSE]

Write(loc) == [loc |-> loc, write |-> TRUE, atomic |-> FALSE]

AtomicWrite(loc) == [loc |-> loc, write |-> TRUE, atomic |-> TRUE]

\* the location of `vec[index]` for the thread-local vector `vec` of context t
Slot(kind, t, vec, index) ==
    IF InRange(index, Len(vec))
    THEN Location(kind, t, index)
    ELSE IF vec = <<>>
         THEN Location("null", 0, index)
         ELSE Location("past the end", t, index)

\* the accesses of the statements context t is about to execute
Accesses(t) ==
    LET c == contexts[t]
    IN IF c.at = "divide"
       THEN {Read(Location("cluster_sizes", 0, c.i))}
            \cup (IF cluster_sizes[c.i] # Indeterminate /\ cluster_sizes[c.i] > 0
                  THEN {Read(Location("new_centroids", 0, c.i)),
                        Write(Location("central_values", 0, c.i))}
                  ELSE {})
       ELSE IF c.at = "oracle"
       THEN {Read(Location("id_cluster", 0, c.i))}
            \cup {Read(Location("central_values", 0, k)) : k \in Clusters}
       ELSE IF c.at = "set"
       THEN {Write(Location("id_cluster", 0, c.i)),
             AtomicWrite(Location("done", 0, 0))}
       ELSE IF c.at = "accumulate"
       THEN {Write(Slot("local_counts", t, local_counts[t], c.new_cluster)),
             Read(Slot("local_sums", t, local_sums[t], c.new_cluster))}
            \cup (IF InRange(c.new_cluster, Len(local_sums[t]))
                  THEN {Write(Location("local_sums", t, c.new_cluster))}
                  ELSE {})
       ELSE IF c.at = "merge"
       THEN {Read(Slot("local_counts", u, local_counts[u], c.i)) :
                u \in DOMAIN local_counts}
            \cup {Read(Slot("local_sums", u, local_sums[u], c.i)) :
                     u \in DOMAIN local_sums}
            \cup {Write(Location("cluster_sizes", 0, c.i)),
                  Write(Location("new_centroids", 0, c.i))}
       ELSE {}

\* two accesses to one location, one of them a write, not both atomic
Conflict(a, b) ==
    /\ a.loc = b.loc
    /\ a.write \/ b.write
    /\ ~(a.atomic /\ b.atomic)

\* two contexts have conflicting accesses pending: nothing orders them
RaceBetween(t, u) ==
    /\ t # u
    /\ \E a \in Accesses(t), b \in Accesses(u) : Conflict(a, b)

\* C22 as stated: usion-parallel is free of data races in every
\* interleaving: no two contexts ever have conflicting accesses pending
\* (a point's cluster_id, an accumulator, and a cluster's global sum, count
\* and centroid each have one writer at a time and no reader beside it).
C22_AsStated ==
    \A t, u \in Threads : ~RaceBetween(t, u)

\* apart from the thread-local accumulators the accesses are free of races:
\* cluster ids, centroids, global sums and counts, and the flag
RaceFreeOutsideAccumulators ==
    \A t, u \in Threads :
        t # u =>
            \A a \in Accesses(t), b \in Accesses(u) :
                Conflict(a, b) => a.loc.kind = "null"

\* the contexts that are executing a task of the given parallel_for
Executing(task) == {t \in Threads : contexts[t].task = task}

\* centroid i holds the quotient the divide step gives it
Divided(i) ==
    (cluster_sizes[i] # Indeterminate /\ cluster_sizes[i] > 0) =>
        central_values[i] =
            [j \in DOMAIN central_values[i] |->
                Rat(new_centroids[i][j], cluster_sizes[i])]

\* C23: in usion-parallel the phases of an iteration are separated by
\* barriers.  While a context executes the assignment body no context
\* executes a divide or a merge task, no divide task is left, every
\* centroid with a positive count holds its quotient, and no step changes a
\* centroid coordinate; while a context executes a merge task no point is
\* left to assign and no context executes the assignment body.
C23_Barriers ==
    /\ [](Executing("fused") # {} =>
             /\ pc \in {"fused", "crashed"}
             /\ Executing("divide") = {}
             /\ Executing("merge") = {}
             /\ todo = {}
             /\ \A i \in Clusters : Divided(i))
    /\ [](Executing("merge") # {} =>
             /\ pc \in {"merge", "crashed"}
             /\ unclaimed = {}
             /\ Executing("fused") = {}
             /\ Executing("divide") = {})
    /\ [](Executing("divide") # {} =>
             /\ pc \in {"divide", "final"}
             /\ Executing("fused") = {}
             /\ Executing("merge") = {})
    /\ [][(pc \in {"fused", "merge"}) =>
             (central_values' = central_values)]_vars

\* C23 reached: two contexts are executing the assignment body of the first
\* pass at the same time, with two clusters divided before it
C23_Witness ==
    /\ pc = "fused"
    /\ iter = 1
    /\ K = 2
    /\ \E t, u \in Executing("fused") : t # u
    /\ \A i \in Clusters : cluster_sizes[i] > 0

\* C24: in usion-parallel the flag `done` is set when the fused step of an
\* iteration begins; a step of the fused step clears it exactly when it
\* changes a point's cluster_id, and never sets it again; nothing touches
\* the flag or a cluster_id between the end of the fused step and the stop
\* test.  So at the stop test `done` is false if and only if a cluster_id
\* was changed in this iteration, whatever the interleaving.
C24_FlagSaysChanged ==
    [][/\ (pc = "divide" /\ pc' = "fused") => done'
       /\ (pc = "fused") =>
             /\ done' => done
             /\ (id_cluster' # id_cluster) => ~done'
             /\ (done /\ ~done') => (id_cluster' # id_cluster)
       /\ (pc \in {"merge", "ucheck"}) =>
             (done' = done /\ id_cluster' = id_cluster)
    ]_vars

\* C24 reached: one context has changed its point and cleared the flag while
\* another context is still deciding about a different point
C24_Witness ==
    /\ pc = "fused"
    /\ K >= 1
    /\ iter = 1
    /\ ~done
    /\ \E t, u \in Executing("fused") :
          /\ t # u
          /\ contexts[t].at = "accumulate"
          /\ id_cluster[contexts[t].i] # SeedIds[contexts[t].i]
          /\ contexts[u].at = "oracle"
          /\ contexts[u].i # contexts[t].i

\* the merge of one iteration of usion-parallel has run for every cluster
Merged == variant = "usion" /\ pc = "merge" /\ todo = {} /\ AllIdle

\* C25 as the specification states it: when the merge of an iteration is
\* over, every cluster_id is the nearest centroid of its point, the flag
\* says whether an id changed, and the merged count and sums of every
\* cluster are determinate values, the same for every interleaving -
\* violated: the merge adds elements read past the end of the empty
\* thread-local vectors, and the body may end the run there instead
C25_AsStated ==
    Merged =>
       /\ id_cluster = SeqAssign(central_values)
       /\ \A c \in Clusters :
             /\ cluster_sizes[c] # Indeterminate
             /\ \A j \in DOMAIN new_centroids[c] :
                   new_centroids[c][j] # Indeterminate

\* what does hold for every interleaving that reaches the merge: the ids
\* are the oracle's answers for the centroids of this iteration
IdsSameForEveryInterleaving ==
    Merged => id_cluster = SeqAssign(central_values)

\* C26: in the sequential drivers a step of the assignment loop changes no
\* centroid coordinate, the recomputation changes no point's cluster_id,
\* and no step of any run changes the points' feature values (a point's
\* id is its index in `values`)
C26_Frames ==
    [][/\ (pc = "assign") => (central_values' = central_values)
       /\ (pc = "recompute") => (id_cluster' = id_cluster)
       /\ values' = values
       /\ total_points' = total_points
    ]_vars

\* C26 reached: a second assignment pass is about to visit a point, after
\* a pass that moved a point and a recomputation that moved a centroid
C26_Witness ==
    /\ variant \in {"lightning", "fast"}
    /\ pc = "assign"
    /\ iter = 2
    /\ i_point < total_points
    /\ \E p \in Points : id_cluster[p] # SeedIds[p]
    /\ \E n \in 1 .. Len(chosen_indexes) :
          central_values[n - 1] # SeedCentral(values[chosen_indexes[n]])

\* how many entries of cluster c's member list are point p
TimesListed(c, p) ==
    Cardinality({k \in 1 .. Len(members[c]) : members[c][k] = p})

\* C27: in fast-serial and kmeans-serial-fast, once the seeds are chosen and
\* after every visit of the assignment loop, the member list of cluster i
\* holds exactly the points whose cluster_id is i, each once; and a visit
\* that moves a point away from a cluster finds it in that cluster's list
C27_MemberLists ==
    /\ [](HasLists /\ Initialized =>
            /\ DOMAIN members = Clusters
            /\ \A c \in Clusters :
                  /\ \A k \in 1 .. Len(members[c]) : members[c][k] \in Points
                  /\ \A p \in Points :
                        TimesListed(c, p) = IF id_cluster[p] = c THEN 1 ELSE 0)
    /\ [][(HasLists /\ pc = "assign" /\ K > 0 /\ id_cluster' # id_cluster
              /\ id_cluster[i_point] # -1)
          => (TimesListed(id_cluster[i_point], i_point) = 1)]_vars

\* C27 reached: a visit has moved a point out of the cluster it was the
\* seed of, and the pass goes on
C27_Witness ==
    /\ HasLists
    /\ pc = "assign"
    /\ K >= 2
    /\ \E p \in Points :
          /\ p < i_point
          /\ SeedIds[p] # -1
          /\ id_cluster[p] # SeedIds[p]
          /\ members[SeedIds[p]] = <<>>

\* ------------------------------------------------ double-precision quotients
\* A positive `double` is <<bits, exp>>: `bits` are the SignificandBits bits
\* of the significand, the first one 1, and the value is
\* (0.b1 b2 ... )_2 * 2^exp; zero is <<<<>>, 0>>.
SignificandBits == 53

DoubleZero == <<<<>>, 0>>

\* the long division and multiplication go by groups of bits
GroupBits == 6

\* the smallest k with s < n * 2^k
RECURSIVE ExpAbove(_, _)
ExpAbove(s, n) == IF s < n THEN 0 ELSE 1 + ExpAbove(s, 2 * n)

\* the largest m with s * 2^m < n, for s < n
RECURSIVE ExpBelow(_, _)
ExpBelow(s, n) == IF 2 * s < n THEN 1 + ExpBelow(2 * s, n) ELSE 0

RECURSIVE TwoTo(_)
TwoTo(k) == IF k = 0 THEN 1 ELSE 2 * TwoTo(k - 1)

\* what is left of r / d after k bits of the quotient, for r < d
RECURSIVE QuotientRest(_, _, _)
QuotientRest(r, d, k) ==
    IF k < GroupBits THEN (r * TwoTo(k)) % d
    ELSE QuotientRest((r * TwoTo(GroupBits)) % d, d, k - GroupBits)

\* the first `count` bits after the binary point of r / d, for r < d
QuotientBits(r, d, count) ==
    [k \in 1 .. count |->
        IF 2 * QuotientRest(r, d, k - 1) >= d THEN 1 ELSE 0]

\* bits + 1 in the last place; all ones wrap to all zeros
Increment(bits) ==
    [k \in 1 .. Len(bits) |->
        IF \A m \in (k + 1) .. Len(bits) : bits[m] = 1
        THEN 1 - bits[k]
        ELSE bits[k]]

\* round to nearest, ties to even: the exact value is (0.bits)_2 * 2^exp
\* plus, when `sticky`, something below the last bit given
RoundToDouble(bits, sticky, exp) ==
    IF Len(bits) <= SignificandBits
    THEN <<bits \o [k \in 1 .. (SignificandBits - Len(bits)) |-> 0], exp>>
    ELSE LET kept == SubSeq(bits, 1, SignificandBits)
             half == bits[SignificandBits + 1] = 1
             below == sticky \/ \E k \in (SignificandBits + 2) .. Len(bits) :
                                    bits[k] = 1
             up == half /\ (below \/ kept[SignificandBits] = 1)
         IN IF ~up THEN <<kept, exp>>
            ELSE IF \A k \in 1 .. SignificandBits : kept[k] = 1
            THEN <<[k \in 1 .. SignificandBits |-> IF k = 1 THEN 1 ELSE 0],
                   exp + 1>>
            ELSE <<Increment(kept), exp>>

\* the double nearest to s / n, for integers s >= 0 and n > 0: what the
\* division of two doubles holding s and n gives
Quotient(s, n) ==
    IF s = 0 THEN DoubleZero
    ELSE LET exp == IF s >= n THEN ExpAbove(s, n) ELSE 0 - ExpBelow(s, n)
             num == IF s >= n THEN s ELSE s * TwoTo(0 - exp)
             den == IF s >= n THEN n * TwoTo(exp) ELSE n
         IN RoundToDouble(QuotientBits(num, den, SignificandBits + 1),
                          QuotientRest(num, den, SignificandBits + 1) # 0,
                          exp)

\* the binary digits of c, most significant first
RECURSIVE BitsOf(_)
BitsOf(c) == IF c = 0 THEN <<>> ELSE BitsOf(c \div 2) \o <<c % 2>>

\* the number whose binary digits are bits[from .. from + GroupBits - 1]
RECURSIVE GroupValue(_, _, _)
GroupValue(bits, from, count) ==
    IF count = 0 THEN 0
    ELSE 2 * GroupValue(bits, from, count - 1) + bits[from + count - 1]

\* s * (bits)_2 from group g on, in groups of GroupBits bits, with the
\* carry that leaves group g
RECURSIVE TimesFrom(_, _, _)
TimesFrom(bits, s, g) ==
    IF g * GroupBits > Len(bits) THEN [low |-> <<>>, carry |-> 0]
    ELSE LET below == TimesFrom(bits, s, g + 1)
             t == s * GroupValue(bits, g * GroupBits - GroupBits + 1, GroupBits)
                    + below.carry
         IN [low |-> <<t % TwoTo(GroupBits)>> \o below.low,
             carry |-> t \div TwoTo(GroupBits)]

\* bits without its leading zeros
Significant(bits) ==
    IF \A k \in 1 .. Len(bits) : bits[k] = 0 THEN <<>>
    ELSE LET first == CHOOSE k \in 1 .. Len(bits) :
                         /\ bits[k] = 1
                         /\ \A m \in 1 .. (k - 1) : bits[m] = 0
         IN SubSeq(bits, first, Len(bits))

\* the bits of s * (bits)_2
TimesBits(bits, s) ==
    LET pad == (GroupBits - (Len(bits) % GroupBits)) % GroupBits
        padded == [k \in 1 .. pad |-> 0] \o bits
        all == TimesFrom(padded, s, 1)
        low == [k \in 1 .. Len(padded) |->
                   (all.low[(k - 1) \div GroupBits + 1]
                        \div TwoTo(GroupBits - 1 - ((k - 1) % GroupBits))) % 2]
    IN Significant(BitsOf(all.carry) \o low)

\* the double nearest to s * x, for an integer s >= 0 and a double x
Times(s, x) ==
    IF s = 0 \/ Len(x[1]) = 0 THEN DoubleZero
    ELSE LET product == TimesBits(x[1], s)
         IN RoundToDouble(product, FALSE,
                          x[2] + Len(product) - SignificandBits)

\* a == b for two doubles
SameDouble(a, b) == Len(a[1]) = Len(b[1]) /\ a = b

\* lightning-serial: `new_centroids[i][j] * inv_cluster_size` with
\* `inv_cluster_size = 1.0 / cluster_sizes[i]`
TimesReciprocal(sum, size) == Times(sum, Quotient(1, size))

\* fast-serial: `sum / total_points_cluster`
DividedBySize(sum, size) == Quotient(sum, size)

\* ------------------------------------- fast-serial beside lightning-serial
MaxEquivPoints == 3

MaxEquivCoord == 2

\* the same input file given to lightning-serial and to fast-serial: points
\* of one feature, K clusters
EquivInit ==
    /\ variant \in {"lightning", "fast"}
    /\ total_points = MaxEquivPoints
    /\ total_values = 1
    /\ K \in 0 .. 2
    /\ max_iterations = MaxIter
    /\ values \in [0 .. (MaxEquivPoints - 1) -> [{0} -> 0 .. MaxEquivCoord]]
    /\ id_cluster = NewPointClusters(MaxEquivPoints)
    /\ chosen_indexes = <<>>
    /\ central_values = <<>>
    /\ members = <<>>
    /\ iter = 0
    /\ done = FALSE
    /\ i_point = 0
    /\ new_centroids = <<>>
    /\ cluster_sizes = <<>>
    /\ local_sums = <<>>
    /\ local_counts = <<>>
    /\ todo = {}
    /\ unclaimed = {}
    /\ output = <<>>
    /\ emptied = {}
    /\ runs = <<>>
    /\ contexts = IdleContexts
    /\ pc = "start"

\* run() of lightning-serial and of fast-serial
EquivNext ==
    \/ Start
    \/ SelectSeed
    \/ SeedsDone
    \/ BeginIteration
    \/ AssignPoint
    \/ AssignDone
    \/ Recompute
    \/ RecomputeFromLists
    \/ CheckStop

EquivSpec == EquivInit /\ [][EquivNext]_vars

\* lightning-serial after n passes of its loop over the seeds chosen
RECURSIVE LightningAfter(_)
LightningAfter(n) ==
    IF n = 0
    THEN [id_cluster |-> SeedIds, central_values |-> SeedCentroids]
    ELSE LET before == LightningAfter(n - 1)
             ids == SeqAssign(before.central_values)
         IN [id_cluster |-> ids,
             central_values |-> SeqRecompute(before.central_values, ids)]

\* the pass after which lightning-serial stops, from pass `it` on
RECURSIVE LightningStops(_)
LightningStops(it) ==
    IF LightningAfter(it).id_cluster = LightningAfter(it - 1).id_cluster
          \/ it >= max_iterations
    THEN it
    ELSE LightningStops(it + 1)

\* both drivers are where lightning-serial is after `iter` passes, with the
\* centroid coordinates taken as exact quotients
SameAsLightning ==
    /\ pc \in {"check", "done"} =>
          /\ id_cluster = LightningAfter(iter).id_cluster
          /\ central_values = LightningAfter(iter).central_values
    /\ pc = "done" => iter = LightningStops(1)

\* the coordinate lightning-serial stores for a cluster and the one
\* fast-serial stores for the same members
StoredByLightning(c, j) ==
    TimesReciprocal(SumOfCoord(PointsOf(c), j), Cardinality(PointsOf(c)))

StoredByFast(c, j) ==
    DividedBySize(SumOfCoord(PointsOf(c), j), Cardinality(PointsOf(c)))

OneUlpApart(a, b) ==
    /\ a[2] = b[2]
    /\ Len(a[1]) = Len(b[1])
    /\ a[1] # b[1]
    /\ \/ Increment(a[1]) = b[1]
       \/ Increment(b[1]) = a[1]

PresumInRange ==
    (variant = "usion" /\ pc = "presum") =>
        \A p \in Points : InRange(id_cluster[p], K)

\* a fused task indexes its thread-local vectors with new_cluster
FusedInRange ==
    \A t \in Executing("fused") :
        contexts[t].at = "accumulate" =>
           /\ InRange(contexts[t].new_cluster, K)
           /\ InRange(contexts[t].new_cluster, Len(local_counts[t]))
           /\ InRange(contexts[t].new_cluster, Len(local_sums[t]))

\* a merge task for cluster i indexes the global vectors and every
\* thread-local vector with i
MergeInRange ==
    \A t \in Executing("merge") :
        /\ InRange(contexts[t].i, K)
        /\ \A u \in DOMAIN local_counts :
              InRange(contexts[t].i, Len(local_counts[u]))
        /\ \A u \in DOMAIN local_sums :
              InRange(contexts[t].i, Len(local_sums[u]))

\* C29 as the specification states it: in usion-parallel with
\* K <= total_points every index into a per-cluster array lies in [0, K)
\* and inside the array - violated: the initial summation uses the
\* cluster_id -1 of the points that are no seeds, and the thread-local
\* vectors have no elements at all
C29_AsStated ==
    (variant = "usion" /\ K <= total_points) =>
        /\ PresumInRange
        /\ FusedInRange
        /\ MergeInRange

\* what does hold: an index of the fused step or the merge is in [0, K)
\* whenever 1 <= K
IndexBelowK ==
    (variant = "usion" /\ 1 <= K) =>
        /\ \A t \in Executing("fused") :
              contexts[t].at = "accumulate" =>
                  InRange(contexts[t].new_cluster, K)
        /\ \A t \in Executing("merge") : InRange(contexts[t].i, K)

\* the total within-cluster squared distance of the assignment ids to the
\* centroids cvs
CostOf(ids, cvs) ==
    RatSumTo([p \in Points |-> DistSq(cvs[ids[p]], values[p])], total_points)

\* every point is in one of the K clusters
AllAssigned == \A p \in Points : InRange(id_cluster[p], K)

\* C30: in lightning-serial and fast-serial, once every point is in a
\* cluster, no step increases the total within-cluster squared distance:
\* not a visit of the assignment loop, which moves a point to a centroid
\* that is nearer, and not the recomputation, which moves the centroids of
\* the clusters that have points to their means and leaves those of the
\* emptied clusters alone.  So the total after the recomputation of one
\* iteration is never larger than after that of the iteration before.
C30_CostNeverIncreases ==
    [][(variant \in {"lightning", "fast"} /\ K >= 1 /\ AllAssigned)
       => ~RatLess(CostOf(id_cluster, central_values),
                   CostOf(id_cluster', central_values'))]_vars

\* C30 reached: after the second recomputation, which followed a pass that
\* emptied a cluster, the total is smaller than after the first
C30_Witness ==
    /\ variant \in {"lightning", "fast"}
    /\ pc = "check"
    /\ iter = 2
    /\ K = 2
    /\ emptied # {}
    /\ RatLess(CostOf(id_cluster, central_values),
               CostOf(LightningAfter(1).id_cluster,
                      LightningAfter(1).central_values))

====
